---------------------------- MODULE Spec2Model ----------------------------
(***************************************************************************)
(* Model of the decode pipeline of nfa-llc/quant:                          *)
(*   src/main.py                 WebPubSubClientManager.on_group_message   *)
(*   src/decompression_utils.py  DCTX, decompress_gex_message,             *)
(*                               decompress_greek_message,                 *)
(*                               decompress_orderflow_message              *)
(*                                                                         *)
(* Conventions.                                                            *)
(*  - A Python str is a sequence of atoms; the string is the concatenation *)
(*    of its atoms.  The atom "_" is the underscore; no other atom         *)
(*    contains an underscore, and the type-tag markers are atoms, so       *)
(*    substring search and split on atom sequences agree with Python's     *)
(*    `in` and str.split on the strings they stand for.                    *)
(*  - An optional protobuf field is <<>> when absent from the wire and     *)
(*    <<v>> when present with value v.                                     *)
(*  - x / 100.0 is the exact rational x/100 in lowest terms,               *)
(*    [num |-> n, den |-> d].                                              *)
(*  - A JSON value is a tagged record: JNull, JNum(n), JStr(s), JList(q),  *)
(*    JObj(f).  Python None is JNull.                                      *)
(***************************************************************************)
EXTENDS Integers, Sequences, FiniteSets, TLC

VARIABLES pc, inflight, out, failedBefore, call, ret

vars == <<pc, inflight, out, failedBefore, call, ret>>

(***************************************************************************)
(* Bounds of the model.                                                    *)
(***************************************************************************)
\* a ticker is 1..MaxTickerParts symbols joined by underscores
MaxTickerParts == 2
\* a JSON mini-contract entry carries up to MaxEntryLen elements
MaxEntryLen == 7

(***************************************************************************)
(* Python str operations on atom sequences.                                *)
(***************************************************************************)
\* sub in s
Contains(s, sub) ==
    \E i \in 1..(Len(s) - Len(sub) + 1) : SubSeq(s, i, i + Len(sub) - 1) = sub

\* s.find(sub) + 1, for a sub that occurs in s
FirstIndex(s, sub) ==
    CHOOSE i \in 1..(Len(s) - Len(sub) + 1) :
        /\ SubSeq(s, i, i + Len(sub) - 1) = sub
        /\ \A j \in 1..(i - 1) : SubSeq(s, j, j + Len(sub) - 1) # sub

\* s.split(sep)[-1]: what follows the last of the non-overlapping
\* occurrences of sep found scanning s from the left; s when there is none
RECURSIVE SplitLast(_, _)
SplitLast(s, sep) ==
    IF ~Contains(s, sep) THEN s
    ELSE SplitLast(SubSeq(s, FirstIndex(s, sep) + Len(sep), Len(s)), sep)

\* "_".join(parts)
RECURSIVE Join(_)
Join(parts) ==
    IF Len(parts) = 0 THEN <<>>
    ELSE IF Len(parts) = 1 THEN <<parts[1]>>
    ELSE <<parts[1], "_">> \o Join(Tail(parts))

(***************************************************************************)
(* Group names (src/main.py 135-141).                                      *)
(***************************************************************************)
\* f"blue_{ticker}_{package}_{category}"
GenerateGroupName(ticker, package, category) ==
    <<"blue", "_">> \o ticker \o <<"_", package, "_">> \o category

(***************************************************************************)
(* Category extraction (src/main.py 230-245).                              *)
(***************************************************************************)
known_packages == <<"classic", "state", "orderflow">>

\* separator = f"_{pkg}_"
Separator(pkg) == <<"_", pkg, "_">>

\* event.group.split(separator)[0]: what precedes the package, not the category
CategoryBeforeSeparator(group, separator) ==
    IF ~Contains(group, separator) THEN group
    ELSE SubSeq(group, 1, FirstIndex(group, separator) - 1)

\* current_category = event.group.split(separator)[-1]
CategoryAfterSeparator(group, separator) == SplitLast(group, separator)

\* the for loop over known_packages with its break; "" when no package matches
RECURSIVE ExtractFrom(_, _)
ExtractFrom(group, i) ==
    IF i > Len(known_packages) THEN <<>>
    ELSE IF Contains(group, Separator(known_packages[i]))
         THEN CategoryAfterSeparator(group, Separator(known_packages[i]))
         ELSE ExtractFrom(group, i + 1)

current_category(group) == ExtractFrom(group, 1)

\* `if not current_category: ... return`
CategoryFound(group) == current_category(group) # <<>>


(***************************************************************************)
(* Numbers.  x / 100.0 and x / 1000.0 as exact rationals in lowest terms.  *)
(***************************************************************************)
Abs(n) == IF n < 0 THEN -n ELSE n

RECURSIVE GCD(_, _)
GCD(a, b) == IF b = 0 THEN a ELSE GCD(b, a % b)

\* n / d for an integer n and a divisor d > 0
Div(n, d) == [num |-> n \div GCD(Abs(n), d), den |-> d \div GCD(Abs(n), d)]

\* Python's `x or default` on an integer x
Or(x, default) == IF x = 0 THEN default ELSE x

(***************************************************************************)
(* Protobuf messages: a message is a record of optional fields; reading an *)
(* unset scalar field gives the type's default (0, "").                    *)
(***************************************************************************)
HasField(msg, f) == msg[f] # <<>>

ProtoInt(msg, f) == IF HasField(msg, f) THEN msg[f][1] ELSE 0

ProtoStr(msg, f) == IF HasField(msg, f) THEN msg[f][1] ELSE ""

(***************************************************************************)
(* JSON values (json.loads) and Python truthiness.                         *)
(***************************************************************************)
JNull == [t |-> "null"]
JNum(n) == [t |-> "num", v |-> n]
JStr(s) == [t |-> "str", v |-> s]
JList(q) == [t |-> "list", v |-> q]
JObj(f) == [t |-> "obj", v |-> f]

\* bool(j)
Truthy(j) ==
    CASE j.t = "null" -> FALSE
      [] j.t = "num"  -> j.v # 0
      [] j.t = "str"  -> j.v # ""
      [] j.t = "list" -> Len(j.v) > 0
      [] j.t = "obj"  -> DOMAIN j.v # {}

\* `j or default`
PyOr(j, default) == IF Truthy(j) THEN j ELSE default

\* dict.get(key, default)
Get(d, key, default) == IF key \in DOMAIN d THEN d[key] ELSE default

(***************************************************************************)
(* Decompression (src/decompression_utils.py 15, 24-26, 77-79, 151-153).   *)
(* The value of an Any is either a valid zstandard frame around a body or  *)
(* bytes that are no frame; reading a stream over the latter raises.       *)
(***************************************************************************)
\* the module-level decompression context every decoder reads through
DCTX == "DCTX"

NoBody == [kind |-> "none"]

\* with DCTX.stream_reader(compressed_bytes) as reader: reader.read()
Inflate(value) ==
    IF value.valid THEN [ok |-> TRUE, body |-> value.body]
    ELSE [ok |-> FALSE, body |-> NoBody]

(***************************************************************************)
(* What a decoder call produces: a dict, or a raised exception.            *)
(***************************************************************************)
NoRecord == [none |-> TRUE]

Return(rec, path) == [kind |-> "record", exc |-> "none", path |-> path, record |-> rec]

Raise(exc, path) == [kind |-> "raise", exc |-> exc, path |-> path, record |-> NoRecord]

\* decoded_proto.ParseFromString(decompressed_bytes) accepts the bytes
ParsesAs(body, schema) == body.kind = schema

(***************************************************************************)
(* decompress_gex_message (src/decompression_utils.py 19-68).              *)
(***************************************************************************)
\* "spot": (decoded_proto.spot or 0) / 1000.0
GexSpotThousandths(m) == Div(Or(ProtoInt(m, "spot"), 0), 1000)

\* "spot": (decoded_proto.spot or 0) / 100.0
GexSpot(m) == Div(Or(ProtoInt(m, "spot"), 0), 100)

\* "min_dte": decoded_proto.min_dte or 0
GexMinDte(m) == Or(ProtoInt(m, "min_dte"), 0)

\* "sec_min_dte": decoded_proto.sec_min_dte or 1
GexSecMinDte(m) == Or(ProtoInt(m, "sec_min_dte"), 1)

\* one element of "strikes"
StrikeRow(s) ==
    << Div(Or(ProtoInt(s, "strike_price"), 0), 100),
       Div(Or(ProtoInt(s, "value_1"), 0), 100),
       Div(Or(ProtoInt(s, "value_2"), 0), 100),
       IF HasField(s, "priors")
       THEN [j \in 1..Len(s.priors[1].values) |-> Div(s.priors[1].values[j], 100)]
       ELSE <<>> >>

\* one element of "max_priors"
PriorPair(t) ==
    << Div(Or(ProtoInt(t, "first_value"), 0), 100),
       Div(Or(ProtoInt(t, "second_value"), 0), 1000) >>

classic_gex(m) ==
    [ timestamp           |-> ProtoInt(m, "timestamp"),
      ticker              |-> ProtoStr(m, "ticker"),
      min_dte             |-> GexMinDte(m),
      sec_min_dte         |-> GexSecMinDte(m),
      spot                |-> GexSpot(m),
      zero_gamma          |-> Div(Or(ProtoInt(m, "zero_gamma"), 0), 100),
      major_pos_vol       |-> Div(Or(ProtoInt(m, "major_pos_vol"), 0), 100),
      major_pos_oi        |-> Div(Or(ProtoInt(m, "major_pos_oi"), 0), 100),
      major_neg_vol       |-> Div(Or(ProtoInt(m, "major_neg_vol"), 0), 100),
      major_neg_oi        |-> Div(Or(ProtoInt(m, "major_neg_oi"), 0), 100),
      strikes             |-> [i \in 1..Len(m.strikes) |-> StrikeRow(m.strikes[i])],
      sum_gex_vol         |-> Div(Or(ProtoInt(m, "sum_gex_vol"), 0), 1000),
      sum_gex_oi          |-> Div(Or(ProtoInt(m, "sum_gex_oi"), 0), 1000),
      delta_risk_reversal |-> Div(Or(ProtoInt(m, "delta_risk_reversal"), 0), 1000),
      max_priors          |-> IF HasField(m, "max_priors")
                              THEN [i \in 1..Len(m.max_priors[1].tuples) |->
                                        PriorPair(m.max_priors[1].tuples[i])]
                              ELSE <<>> ]

\* the function after the stream read: r is what the read gave
GexFromInflated(r) ==
    IF ~r.ok THEN Raise("ZstdError", "none")
    ELSE IF ~ParsesAs(r.body, "gex") THEN Raise("DecodeError", "gex")
    ELSE Return(classic_gex(r.body.msg), "gex")

decompress_gex_message(value) == GexFromInflated(Inflate(value))

(***************************************************************************)
(* decompress_greek_message (src/decompression_utils.py 71-143).           *)
(***************************************************************************)
VolumeZero == <<"volume", "_", "zero">>
VolumeOne == <<"volume", "_", "one">>

\* ('volume_zero', 'volume_one')
JsonCategories == {VolumeZero, VolumeOne}

\* a test that knows volume_zero only
IsJsonCategoryZeroOnly(category) == category = VolumeZero

\* current_category in ('volume_zero', 'volume_one')
IsJsonCategory(category) == category \in JsonCategories

\* --- JSON path (82-110) ---
\* the highest index the comprehension reads of an entry is mc[6]
EntryWidth == 7

\* what reading mc[0] .. mc[6] raises, "none" when every index is there
EntryError(mc) ==
    IF mc.t # "list" THEN "TypeError"
    ELSE IF Len(mc.v) < EntryWidth THEN "IndexError"
    ELSE "none"

\* [mc[0], mc[1], mc[2], mc[3], mc[4] or [], mc[5] or 0, mc[6] or []]
JsonMiniContract(mc) ==
    << mc.v[1], mc.v[2], mc.v[3], mc.v[4],
       PyOr(mc.v[5], JList(<<>>)),
       PyOr(mc.v[6], JNum(0)),
       PyOr(mc.v[7], JList(<<>>)) >>

\* the first exception the comprehension over mini_contracts raises
RECURSIVE EntriesError(_, _)
EntriesError(entries, i) ==
    IF i > Len(entries) THEN "none"
    ELSE IF EntryError(entries[i]) # "none" THEN EntryError(entries[i])
    ELSE EntriesError(entries, i + 1)

\* the live_contracts dict of the JSON path, for a dict raw_profile whose
\* mini_contracts are all readable
live_contracts_json(raw_profile, entries) ==
    [ timestamp         |-> Get(raw_profile, "timestamp", JNull),
      ticker            |-> Get(raw_profile, "ticker", JNull),
      spot              |-> Get(raw_profile, "spot", JNum(0)),
      min_dte           |-> Get(raw_profile, "min_dte", JNum(0)),
      sec_min_dte       |-> Get(raw_profile, "sec_min_dte", JNum(1)),
      major_positive    |-> Get(raw_profile, "major_call_gamma", JNum(0)),
      major_negative    |-> Get(raw_profile, "major_put_gamma", JNum(0)),
      major_long_gamma  |-> Get(raw_profile, "major_long_gamma", JNum(0)),
      major_short_gamma |-> Get(raw_profile, "major_short_gamma", JNum(0)),
      mini_contracts    |-> [i \in 1..Len(entries) |-> JsonMiniContract(entries[i])] ]

\* decompressed_bytes.decode('utf-8'); json.loads(...); the dict literal
GreekJsonPath(body) ==
    IF body.kind \notin {"json", "text"} THEN Raise("UnicodeDecodeError", "json")
    ELSE IF body.kind = "text" THEN Raise("JSONDecodeError", "json")
    ELSE IF body.doc.t # "obj" THEN Raise("AttributeError", "json")
    ELSE LET raw_profile == body.doc.v
             mini == Get(raw_profile, "mini_contracts", JList(<<>>))
         IN  IF mini.t # "list" THEN Raise("TypeError", "json")
             ELSE IF EntriesError(mini.v, 1) # "none"
                  THEN Raise(EntriesError(mini.v, 1), "json")
             ELSE Return(live_contracts_json(raw_profile, mini.v), "json")

\* --- Protobuf path (112-143) ---
\* one element of "mini_contracts"
ProtoMiniContract(mc) ==
    << Div(Or(ProtoInt(mc, "strike"), 0), 100),
       Div(Or(ProtoInt(mc, "call_ivol"), 0), 1000),
       Div(Or(ProtoInt(mc, "put_ivol"), 0), 1000),
       Div(Or(ProtoInt(mc, "call_cvolume"), 0), 100),
       [j \in 1..Len(mc.call_cvolume_priors) |->
            Div(Or(mc.call_cvolume_priors[j], 0), 100)],
       Or(ProtoInt(mc, "put_cvolume"), 0),
       IF HasField(mc, "put_cvolume_priors")
       THEN mc.put_cvolume_priors[1].values
       ELSE <<>> >>

live_contracts_proto(m) ==
    [ timestamp         |-> ProtoInt(m, "timestamp"),
      ticker            |-> ProtoStr(m, "ticker"),
      spot              |-> Div(Or(ProtoInt(m, "spot"), 0), 100),
      min_dte           |-> Or(ProtoInt(m, "min_dte"), 0),
      sec_min_dte       |-> Or(ProtoInt(m, "sec_min_dte"), 1),
      major_positive    |-> Div(Or(ProtoInt(m, "major_call_gamma"), 0), 100),
      major_negative    |-> Div(Or(ProtoInt(m, "major_put_gamma"), 0), 100),
      major_long_gamma  |-> Div(Or(ProtoInt(m, "major_long_gamma"), 0), 100),
      major_short_gamma |-> Div(Or(ProtoInt(m, "major_short_gamma"), 0), 100),
      mini_contracts    |-> [i \in 1..Len(m.mini_contracts) |->
                                ProtoMiniContract(m.mini_contracts[i])] ]

GreekProtoPath(body) ==
    IF ~ParsesAs(body, "option_profile") THEN Raise("DecodeError", "binary")
    ELSE Return(live_contracts_proto(body.msg), "binary")

\* the function after the stream read: r is what the read gave
GreekFromInflated(r, category) ==
    IF ~r.ok THEN Raise("ZstdError", "none")
    ELSE IF IsJsonCategory(category) THEN GreekJsonPath(r.body)
    ELSE GreekProtoPath(r.body)

decompress_greek_message(value, category) ==
    GreekFromInflated(Inflate(value), category)

(***************************************************************************)
(* decompress_orderflow_message (src/decompression_utils.py 146-203).      *)
(***************************************************************************)
\* the fields the dict literal divides by 100.0 (163-171)
OrderflowHundredths ==
    { "spot",
      "zero_major_long_gamma", "zero_major_short_gamma",
      "one_major_long_gamma", "one_major_short_gamma",
      "zero_major_call_gamma", "zero_major_put_gamma",
      "one_major_call_gamma", "one_major_put_gamma" }

\* "State fields (sint32, no multiplier)" (174-193)
OrderflowStateFields ==
    { "zero_convexity_ratio", "one_convexity_ratio",
      "zero_gex_ratio", "one_gex_ratio",
      "zero_net_vanna", "one_net_vanna",
      "zero_net_charm", "one_net_charm",
      "zero_agg_total_dex", "one_agg_total_dex",
      "zero_agg_call_dex", "one_agg_call_dex",
      "zero_agg_put_dex", "one_agg_put_dex",
      "zero_net_total_dex", "one_net_total_dex",
      "zero_net_call_dex", "one_net_call_dex",
      "zero_net_put_dex", "one_net_put_dex" }

\* "Orderflow fields (sint32, no multiplier)" (196-201)
OrderflowDeltaFields ==
    { "dex_orderflow", "gex_orderflow", "convexity_orderflow",
      "one_dex_orderflow", "one_gex_orderflow", "one_convexity_orderflow" }

OrderflowKeys ==
    {"timestamp", "ticker"} \cup OrderflowHundredths
        \cup OrderflowStateFields \cup OrderflowDeltaFields

\* (decoded_proto.<k> or 0) / 1000.0
OrderflowScaledThousandths(m, k) == Div(Or(ProtoInt(m, k), 0), 1000)

\* (decoded_proto.<k> or 0) / 100.0
OrderflowScaled(m, k) == Div(Or(ProtoInt(m, k), 0), 100)

\* decoded_proto.<k>, the sint32 as it is
OrderflowRaw(m, k) == ProtoInt(m, k)

orderflow_data(m) ==
    [ k \in OrderflowKeys |->
        IF k = "ticker" THEN ProtoStr(m, k)
        ELSE IF k \in OrderflowHundredths THEN OrderflowScaled(m, k)
        ELSE OrderflowRaw(m, k) ]

\* the function after the stream read: r is what the read gave
OrderflowFromInflated(r) ==
    IF ~r.ok THEN Raise("ZstdError", "none")
    ELSE IF ~ParsesAs(r.body, "orderflow") THEN Raise("DecodeError", "orderflow")
    ELSE Return(orderflow_data(r.body.msg), "orderflow")

decompress_orderflow_message(value) == OrderflowFromInflated(Inflate(value))

(***************************************************************************)
(* on_group_message (src/main.py 214-280).                                 *)
(*                                                                         *)
(* An event is [group, data]; data either parses as an Any carrying        *)
(* type_url and value, or does not (ParseFromString raises).               *)
(***************************************************************************)
GexMarker == <<"proto.gex">>
GreekMarker == <<"proto.greek">>
OrderflowMarker == <<"proto.orderflow">>

\* a chain that tests the orderflow marker before the other two
RouteOrderflowFirst(type_url) ==
    IF Contains(type_url, OrderflowMarker) THEN "orderflow"
    ELSE IF Contains(type_url, GexMarker) THEN "gex"
    ELSE IF Contains(type_url, GreekMarker) THEN "greek"
    ELSE "unknown"

\* the if / elif / elif / else chain on message_type_url (250-276)
Route(type_url) ==
    IF Contains(type_url, GexMarker) THEN "gex"
    ELSE IF Contains(type_url, GreekMarker) THEN "greek"
    ELSE IF Contains(type_url, OrderflowMarker) THEN "orderflow"
    ELSE "unknown"

\* the exception classes the decode path raises, all subclasses of Exception
ExceptionSubclasses ==
    { "DecodeError", "ZstdError", "UnicodeDecodeError", "JSONDecodeError",
      "AttributeError", "TypeError", "IndexError" }

\* a handler that catches the protobuf error only
HandlerCatchesDecodeErrorOnly(exc) == exc = "DecodeError"

\* `except Exception as e` (278)
HandlerCatches(exc) == exc \in ExceptionSubclasses

\* How one call of on_group_message ends:
\*   returned  the call returned normally (no exception left it)
\*   kind      "record": a decoder returned a dict, which is printed
\*             "failed": an exception was caught and reported (279)
\*             "no_category": the early return of 241-245
\*             "unknown_type": the else branch, type_url printed (276)
\*             "escaped": an exception left the handler
\*   decoder   the decompress_* function that was called, or "none"
Result(kind, decoder, category, reported, exc, path, record) ==
    [ returned |-> kind # "escaped", kind |-> kind, decoder |-> decoder,
      category |-> category, reported |-> reported, exc |-> exc,
      path |-> path, record |-> record ]

\* an exception raised inside the try block
Raised(exc, decoder, category, path) ==
    IF HandlerCatches(exc)
    THEN Result("failed", decoder, category, <<>>, exc, path, NoRecord)
    ELSE Result("escaped", decoder, category, <<>>, exc, path, NoRecord)

\* the handler calls a decompress_* function, which opens a stream on DCTX
NeedsDecoder(ev) ==
    /\ ev.data.parses
    /\ CategoryFound(ev.group)
    /\ Route(ev.data.type_url) # "unknown"

\* the calls that end before any decoder is called
EarlyResult(ev) ==
    IF ~ev.data.parses
    THEN Raised("DecodeError", "none", <<>>, "none")
    ELSE IF ~CategoryFound(ev.group)
    THEN Result("no_category", "none", <<>>, ev.group, "none", "none", NoRecord)
    ELSE Result("unknown_type", "none", current_category(ev.group),
                ev.data.type_url, "none", "none", NoRecord)

\* the rest of the call once the stream read has given r
LateResult(ev, r) ==
    LET decoder  == Route(ev.data.type_url)
        category == current_category(ev.group)
        decoded  == CASE decoder = "gex"       -> GexFromInflated(r)
                      [] decoder = "greek"     -> GreekFromInflated(r, category)
                      [] decoder = "orderflow" -> OrderflowFromInflated(r)
    IN  IF decoded.kind = "raise"
        THEN Raised(decoded.exc, decoder, category, decoded.path)
        ELSE Result("record", decoder, category, <<>>, "none",
                    decoded.path, decoded.record)

\* one whole call of on_group_message with nothing else running
Handle(ev) ==
    IF NeedsDecoder(ev) THEN LateResult(ev, Inflate(ev.data.value))
    ELSE EarlyResult(ev)

\* the calls that end without a record
IsFailure(result) == result.kind # "record"

(***************************************************************************)
(* Inputs: channel ids.                                                    *)
(***************************************************************************)
\* symbols of ACTIVE_TICKERS (src/main.py 42-91); ES_SPX is <<"ES","_","SPX">>
TickerSymbols == {"ES", "SPX", "NDX"}

Tickers ==
    { Join(parts) : parts \in UNION { [1..n -> TickerSymbols] : n \in 1..MaxTickerParts } }

\* the packages GROUP_CONFIG passes (145-161), and one the handler does not know
Packages == {"classic", "state", "orderflow", "futures"}

\* categories of the ACTIVE_*_CATEGORIES lists (94-128)
GexFull == <<"gex", "_", "full">>
DeltaZero == <<"delta", "_", "zero">>
Categories == { GexFull, <<"gex", "_", "zero">>, VolumeZero, VolumeOne, DeltaZero, <<"orderflow">> }

\* channel ids that hold no "_<package>_" of a known package
OtherChannelIds ==
    { <<"blue", "_", "ES", "_", "SPX">>,
      <<"blue", "_", "ES", "_", "SPX", "_", "state">>,
      <<"state", "_", "volume", "_", "zero">>,
      <<"blue", "_", "SPX", "_", "statevolume", "_", "zero">>,
      <<>> }

(***************************************************************************)
(* Inputs: payloads.                                                       *)
(***************************************************************************)
Frame(body) == [valid |-> TRUE, body |-> body]
CorruptValue == [valid |-> FALSE, body |-> NoBody]
JunkBody == [kind |-> "junk"]
TextBody == [kind |-> "text"]

\* --- Gex ---
Strike(priors) ==
    [ strike_price |-> <<520000>>, value_1 |-> <<150>>, value_2 |-> <<>>,
      priors |-> priors ]

GexMsg(spot, min_dte, sec_min_dte, strikes, max_priors) ==
    [ timestamp |-> <<1700000000>>, ticker |-> <<"SPX">>,
      min_dte |-> min_dte, sec_min_dte |-> sec_min_dte, spot |-> spot,
      zero_gamma |-> <<519050>>, major_pos_vol |-> <<525000>>,
      major_pos_oi |-> <<>>, major_neg_vol |-> <<-1>>, major_neg_oi |-> <<>>,
      strikes |-> strikes,
      sum_gex_vol |-> <<1234>>, sum_gex_oi |-> <<>>,
      delta_risk_reversal |-> <<-15>>,
      max_priors |-> max_priors ]

WireSpots == { <<>>, <<0>>, <<52000>>, <<-250>>, <<12345>>, <<1>> }
WireMinDtes == { <<>>, <<0>>, <<3>> }
WireSecMinDtes == { <<>>, <<0>>, <<1>>, <<7>> }
WireStrikes ==
    { <<>>, <<Strike(<<>>)>>, <<Strike(<<[values |-> <<100, -50>>]>>), Strike(<<>>)>> }
WireMaxPriors ==
    { <<>>, <<[tuples |-> <<[first_value |-> <<520000>>, second_value |-> <<>>]>>]>> }

GexMsgs ==
    { GexMsg(s, d, e, k, p) :
        s \in WireSpots, d \in WireMinDtes, e \in WireSecMinDtes,
        k \in WireStrikes, p \in WireMaxPriors }

GexBody(m) == [kind |-> "gex", msg |-> m]

GexValues == { Frame(GexBody(m)) : m \in GexMsgs } \cup {CorruptValue, Frame(JunkBody)}

\* --- OptionProfile, JSON variant ---
\* mc[0] .. mc[3] are read without a default
RequiredEntryWidth == 4

\* an entry of eight elements; its first n are what a shorter entry holds
LongEntry(a, b, c) ==
    << JNum(5200), JNum(2), JNum(3), JNum(10), a, b, c, JNum(99) >>

OptionalPriors == { JNull, JList(<<>>), JList(<<JNum(1)>>) }
OptionalVolumes == { JNull, JNum(0), JNum(4) }

JsonEntries ==
    { JList(SubSeq(LongEntry(a, b, c), 1, n)) :
        a \in OptionalPriors, b \in OptionalVolumes, c \in OptionalPriors,
        n \in RequiredEntryWidth..MaxEntryLen }

JsonMiniContractLists ==
    { <<e>> : e \in JsonEntries }
        \cup { <<>>, <<JNum(7)>>,
               << JList(SubSeq(LongEntry(JNull, JNull, JNull), 1, EntryWidth)),
                  JList(SubSeq(LongEntry(JNull, JNull, JNull), 1, RequiredEntryWidth)) >> }

BaseProfile ==
    [ timestamp |-> JNum(1700000000), ticker |-> JStr("SPX"), spot |-> JNum(5200) ]

\* a JSON object with the keys of K, and mini_contracts when given
Profile(K, mini) ==
    [ k \in K \cup {"mini_contracts"} |->
        IF k = "mini_contracts" THEN mini ELSE BaseProfile[k] ]

JsonDocs ==
    { JObj(Profile(K, JList(q))) : K \in SUBSET DOMAIN BaseProfile, q \in JsonMiniContractLists }
        \cup { JObj([k \in K |-> BaseProfile[k]]) : K \in SUBSET DOMAIN BaseProfile }
        \cup { JObj(Profile(DOMAIN BaseProfile, JNull)), JList(<<>>) }

JsonBody(doc) == [kind |-> "json", doc |-> doc]

\* --- OptionProfile, binary variant ---
WireMiniContract(priors, put_priors) ==
    [ strike |-> <<520000>>, call_ivol |-> <<215>>, put_ivol |-> <<>>,
      call_cvolume |-> <<1050>>, call_cvolume_priors |-> priors,
      put_cvolume |-> <<12>>, put_cvolume_priors |-> put_priors ]

OptionProfileMsg(spot, minis) ==
    [ timestamp |-> <<1700000000>>, ticker |-> <<"SPX">>, spot |-> spot,
      min_dte |-> <<>>, sec_min_dte |-> <<>>,
      major_call_gamma |-> <<525000>>, major_put_gamma |-> <<>>,
      major_long_gamma |-> <<-100>>, major_short_gamma |-> <<>>,
      mini_contracts |-> minis ]

OptionProfileMsgs ==
    { OptionProfileMsg(s, k) :
        s \in {<<>>, <<52000>>},
        k \in { <<>>, <<WireMiniContract(<<>>, <<>>)>>,
                <<WireMiniContract(<<100, 0>>, <<[values |-> <<3, 4>>]>>)>> } }

OptionProfileBody(m) == [kind |-> "option_profile", msg |-> m]

GreekValues ==
    { Frame(JsonBody(d)) : d \in JsonDocs }
        \cup { Frame(OptionProfileBody(m)) : m \in OptionProfileMsgs }
        \cup { CorruptValue, Frame(JunkBody), Frame(TextBody) }

\* the categories decompress_greek_message is called with
GreekCategories ==
    { VolumeZero, VolumeOne, GexFull, DeltaZero, <<>>, <<"volume">>,
      <<"volume", "_", "zero", "_", "x">> }

\* --- Orderflow ---
\* a wire message that carries the fields of `present` and no other
OrderflowMsg(present) ==
    [ k \in OrderflowKeys |-> IF k \in DOMAIN present THEN <<present[k]>> ELSE <<>> ]

\* values a sint32 field carries on the wire
WireInts == { -52000, -7, 0, 1, 52000 }

\* the integer fields of the message
OrderflowIntFields == OrderflowKeys \ {"timestamp", "ticker"}

OrderflowMsgs ==
    { OrderflowMsg([timestamp |-> 1700000000, ticker |-> "SPX", spot |-> 52000,
                    zero_agg_total_dex |-> -7]),
      OrderflowMsg([ticker |-> "SPX"]),
      OrderflowMsg([timestamp |-> 1700000000, spot |-> -250, one_major_put_gamma |-> 515000,
                    dex_orderflow |-> -3, one_net_vanna |-> 12]) }
        \* one integer field on the wire, every other absent
        \cup { OrderflowMsg([k \in {f} |-> v]) : f \in OrderflowIntFields, v \in WireInts }
        \* every integer field on the wire
        \cup { OrderflowMsg([k \in OrderflowKeys |->
                                IF k = "ticker" THEN "SPX"
                                ELSE IF k = "timestamp" THEN 1700000000
                                ELSE v]) : v \in WireInts }

OrderflowBody(m) == [kind |-> "orderflow", msg |-> m]

OrderflowValues ==
    { Frame(OrderflowBody(m)) : m \in OrderflowMsgs } \cup {CorruptValue, Frame(JunkBody)}

(***************************************************************************)
(* Inputs: the events the client managers are handed.                      *)
(***************************************************************************)
Event(group, type_url, value) ==
    [ group |-> group, data |-> [parses |-> TRUE, type_url |-> type_url, value |-> value] ]

\* event.data that is no serialized Any
UnparsableEvent(group) ==
    [ group |-> group, data |-> [parses |-> FALSE, type_url |-> <<>>, value |-> CorruptValue] ]

ES_SPX == <<"ES", "_", "SPX">>
GroupVolumeZero == GenerateGroupName(ES_SPX, "state", VolumeZero)
GroupDeltaZero == GenerateGroupName(ES_SPX, "state", DeltaZero)
GroupGexFull == GenerateGroupName(ES_SPX, "classic", GexFull)
GroupOrderflow == GenerateGroupName(ES_SPX, "orderflow", <<"orderflow">>)
GroupNoPackage == <<"blue", "_", "ES", "_", "SPX">>

TagGex == <<"type.googleapis.com/", "proto.gex", ".Gex">>
TagGreek == <<"type.googleapis.com/", "proto.greek", ".OptionProfile">>
TagOrderflow == <<"type.googleapis.com/", "proto.orderflow", ".Orderflow">>
TagUnknown == <<"type.googleapis.com/", "proto.unknown">>
TagOrderflowGex == <<"proto.orderflow", "/", "proto.gex">>
TagOrderflowGreek == <<"proto.orderflow", "/", "proto.greek">>

SampleGex ==
    Frame(GexBody(GexMsg(<<52000>>, <<>>, <<>>, <<Strike(<<>>)>>, <<>>)))
SampleEntry == JList(SubSeq(LongEntry(JNull, JNum(4), JNull), 1, EntryWidth))
ShortEntry == JList(SubSeq(LongEntry(JNull, JNull, JNull), 1, RequiredEntryWidth))
SampleJson ==
    Frame(JsonBody(JObj(Profile(DOMAIN BaseProfile, JList(<<SampleEntry>>)))))
SampleJsonNoTimestamp ==
    Frame(JsonBody(JObj(Profile({"ticker", "spot"}, JList(<<SampleEntry>>)))))
SampleJsonShortEntry ==
    Frame(JsonBody(JObj(Profile(DOMAIN BaseProfile, JList(<<ShortEntry>>)))))
SampleOptionProfile ==
    Frame(OptionProfileBody(OptionProfileMsg(<<52000>>, <<WireMiniContract(<<>>, <<>>)>>)))
SampleOrderflow ==
    Frame(OrderflowBody(OrderflowMsg([timestamp |-> 1700000000, ticker |-> "SPX",
                                      spot |-> 52000, zero_agg_total_dex |-> -7])))

Events ==
    { Event(GroupGexFull, TagGex, SampleGex),
      Event(GroupGexFull, TagGex, CorruptValue),
      Event(GroupGexFull, TagGex, Frame(JunkBody)),
      Event(GroupGexFull, TagOrderflowGex, SampleGex),
      Event(GroupNoPackage, TagGex, SampleGex),
      Event(GroupVolumeZero, TagGreek, SampleJson),
      Event(GroupVolumeZero, TagGreek, SampleJsonNoTimestamp),
      Event(GroupVolumeZero, TagGreek, SampleJsonShortEntry),
      Event(GroupVolumeZero, TagGreek, Frame(TextBody)),
      Event(GroupVolumeZero, TagOrderflowGreek, SampleJson),
      Event(GroupDeltaZero, TagGreek, SampleOptionProfile),
      Event(GroupNoPackage, TagGreek, SampleOptionProfile),
      Event(GroupOrderflow, TagOrderflow, SampleOrderflow),
      Event(GroupOrderflow, TagOrderflow, CorruptValue),
      Event(GroupNoPackage, TagOrderflow, SampleOrderflow),
      Event(GroupVolumeZero, TagUnknown, SampleJson),
      Event(GroupNoPackage, TagUnknown, SampleGex),
      UnparsableEvent(GroupVolumeZero) }

(***************************************************************************)
(* The client managers (src/main.py 168-192, 326-336): one per hub, each   *)
(* delivering its group messages to on_group_message from its own client   *)
(* thread.                                                                 *)
(*   pc[m]        "idle": no call running; "reading": a call of m is       *)
(*                inside a decompress_* function's `with DCTX.stream_      *)
(*                reader(...)` block; "crashed": an exception left the     *)
(*                handler                                                  *)
(*   inflight[m]  the event of the running call; raced: another manager    *)
(*                was inside its own stream read on the same context at    *)
(*                some moment of this one                                  *)
(*   out[m]       how m's last call ended, once it has; prior: some call   *)
(*                had failed before this one was delivered                 *)
(*   failedBefore some call has ended without a record                     *)
(***************************************************************************)
\* two of the hubs of GROUP_CONFIG
Hubs == {"state_gex", "state_greeks_zero"}

\* the decompression context a manager's decoders read through
ContextOf(m) == DCTX

NoFlight == [busy |-> FALSE]
NoOutcome == [done |-> FALSE]
NoCall == [fn |-> "none"]

Readers == { h \in Hubs : pc[h] = "reading" }

\* What reader.read() gives.  A stream read that shared the context with
\* another thread's is a data race on the context: it may give the right
\* bytes, raise, or give other bytes.
ReadOutcomes(flight) ==
    IF flight.raced
    THEN { Inflate(flight.ev.data.value),
           [ok |-> FALSE, body |-> NoBody],
           [ok |-> TRUE, body |-> JunkBody] }
    ELSE { Inflate(flight.ev.data.value) }

Init ==
    /\ pc = [m \in Hubs |-> "idle"]
    /\ inflight = [m \in Hubs |-> NoFlight]
    /\ out = [m \in Hubs |-> NoOutcome]
    /\ failedBefore = FALSE
    /\ call = NoCall
    /\ ret = NoCall

\* the call of manager m ends with `result`
Finish(m, ev, raced, prior, result) ==
    /\ out' = [out EXCEPT ![m] = [ done |-> TRUE, ev |-> ev, raced |-> raced,
                                   prior |-> prior, result |-> result ]]
    /\ pc' = [pc EXCEPT ![m] = IF result.returned THEN "idle" ELSE "crashed"]
    /\ failedBefore' = (failedBefore \/ IsFailure(result))

\* on_group_message(event) starts on manager m's thread and runs until it
\* either ends without a decoder or has opened its stream on DCTX
Deliver(m, ev) ==
    /\ pc[m] = "idle"
    /\ call = NoCall
    /\ IF NeedsDecoder(ev)
       THEN /\ pc' = [pc EXCEPT ![m] = "reading"]
            /\ inflight' =
                 [ h \in Hubs |->
                     IF h = m
                     THEN [ busy |-> TRUE, ev |-> ev, raced |-> Readers # {},
                            prior |-> failedBefore ]
                     ELSE IF inflight[h].busy
                          THEN [inflight[h] EXCEPT !.raced = TRUE]
                          ELSE inflight[h] ]
            /\ out' = [out EXCEPT ![m] = NoOutcome]
            /\ UNCHANGED failedBefore
       ELSE /\ Finish(m, ev, FALSE, failedBefore, EarlyResult(ev))
            /\ UNCHANGED inflight
    /\ UNCHANGED <<call, ret>>

\* the stream read, the parse, the dict, the print and the return
Complete(m) ==
    /\ pc[m] = "reading"
    /\ \E r \in ReadOutcomes(inflight[m]) :
          Finish(m, inflight[m].ev, inflight[m].raced, inflight[m].prior,
                 LateResult(inflight[m].ev, r))
    /\ inflight' = [inflight EXCEPT ![m] = NoFlight]
    /\ UNCHANGED <<call, ret>>

Next ==
    \/ \E m \in Hubs, ev \in Events : Deliver(m, ev)
    \/ \E m \in Hubs : Complete(m)

Spec == Init /\ [][Next]_vars

(***************************************************************************)
(* The decoders and the category extraction as functions: one call on one  *)
(* input drawn from the input sets above.                                  *)
(***************************************************************************)
Untouched == UNCHANGED <<pc, inflight, out, failedBefore>>

CallExtract ==
    /\ call = NoCall
    /\ \E ticker \in Tickers, package \in Packages, category \in Categories :
          LET group == GenerateGroupName(ticker, package, category)
          IN  /\ call' = [ fn |-> "extract", group |-> group, ticker |-> ticker,
                           package |-> package, category |-> category ]
              /\ ret' = [ found |-> CategoryFound(group),
                          category |-> current_category(group) ]
    /\ Untouched

CallExtractOther ==
    /\ call = NoCall
    /\ \E group \in OtherChannelIds :
          /\ call' = [fn |-> "extract_other", group |-> group]
          /\ ret' = [ found |-> CategoryFound(group),
                      category |-> current_category(group) ]
    /\ Untouched

CallGex ==
    /\ call = NoCall
    /\ \E value \in GexValues :
          /\ call' = [fn |-> "gex", value |-> value]
          /\ ret' = decompress_gex_message(value)
    /\ Untouched

CallGreek ==
    /\ call = NoCall
    /\ \E value \in GreekValues, category \in GreekCategories :
          /\ call' = [fn |-> "greek", value |-> value, category |-> category]
          /\ ret' = decompress_greek_message(value, category)
    /\ Untouched

CallOrderflow ==
    /\ call = NoCall
    /\ \E value \in OrderflowValues :
          /\ call' = [fn |-> "orderflow", value |-> value]
          /\ ret' = decompress_orderflow_message(value)
    /\ Untouched

NextDecode ==
    \/ CallExtract
    \/ CallExtractOther
    \/ CallGex
    \/ CallGreek
    \/ CallOrderflow

SpecDecode == Init /\ [][NextDecode]_vars

(***************************************************************************)
(* Properties.                                                             *)
(***************************************************************************)
\* the channel id holds none of _classic_, _state_, _orderflow_
NoDelimiter(group) ==
    /\ ~Contains(group, <<"_", "classic", "_">>)
    /\ ~Contains(group, <<"_", "state", "_">>)
    /\ ~Contains(group, <<"_", "orderflow", "_">>)

\* the first of the gex, greek and orderflow markers, in that order, that
\* occurs in the type tag
FirstMarker(type_url) ==
    IF Contains(type_url, <<"proto.gex">>) THEN "gex"
    ELSE IF Contains(type_url, <<"proto.greek">>) THEN "greek"
    ELSE IF Contains(type_url, <<"proto.orderflow">>) THEN "orderflow"
    ELSE "none"

\* C1 (under SpecDecode).  For a channel id blue_<ticker>_state_<cat> whose
\* ticker holds an underscore, the extracted category is exactly <cat>; for
\* a channel id that holds none of the three delimiters, extraction reports
\* not-found.
CategoryExtraction ==
    /\ (call.fn = "extract" /\ call.package = "state"
            /\ Contains(call.ticker, <<"_">>))
         => (ret.found /\ ret.category = call.category)
    /\ (call.fn \in {"extract", "extract_other"} /\ NoDelimiter(call.group))
         => ~ret.found

\* blue_ES_SPX_state_volume_zero gave volume_zero
CategoryExtractionWitness ==
    /\ call.fn = "extract"
    /\ call.group = <<"blue", "_", "ES", "_", "SPX", "_", "state", "_", "volume", "_", "zero">>
    /\ call.package = "state"
    /\ ret.category = <<"volume", "_", "zero">>

\* C2 (under Spec).  The decoder a call invokes, when it invokes one, is the
\* decoder of the first of the gex, greek, orderflow markers that occurs in
\* the type tag, and it is that decoder whenever the envelope parsed and its
\* category resolved; a call invokes at most that one decoder.
TypeTagRouting ==
    \A m \in Hubs :
        out[m].done =>
            /\ out[m].result.decoder \in {"none", FirstMarker(out[m].ev.data.type_url)}
            /\ (out[m].ev.data.parses /\ out[m].result.kind # "no_category")
                 => out[m].result.decoder = FirstMarker(out[m].ev.data.type_url)

\* a tag that holds the orderflow marker and then the gex marker was decoded
\* by the gex decoder
TypeTagRoutingWitness ==
    \E m \in Hubs :
        /\ out[m].done
        /\ out[m].ev.data.type_url = <<"proto.orderflow", "/", "proto.gex">>
        /\ out[m].result.decoder = "gex"
        /\ out[m].result.kind = "record"

\* C3 (under Spec).  An envelope of the gex or the orderflow family is
\* dispatched to its decoder even when the channel id holds no known
\* package, and only envelopes of the greek family end in the
\* category-not-found outcome.
CategoryOnlyForGreek ==
    \A m \in Hubs :
        (out[m].done /\ out[m].ev.data.parses) =>
            /\ FirstMarker(out[m].ev.data.type_url) \in {"gex", "orderflow"}
                 => out[m].result.decoder = FirstMarker(out[m].ev.data.type_url)
            /\ out[m].result.kind = "no_category"
                 => FirstMarker(out[m].ev.data.type_url) = "greek"

\* C4 (under Spec).  An envelope whose type tag holds none of the three
\* markers, whatever its channel id, invokes no decoder and ends in the
\* unknown-schema outcome, which carries the type tag.
UnknownSchema ==
    \A m \in Hubs :
        (out[m].done /\ out[m].ev.data.parses
            /\ FirstMarker(out[m].ev.data.type_url) = "none") =>
            /\ out[m].result.decoder = "none"
            /\ out[m].result.kind = "unknown_type"
            /\ out[m].result.reported = out[m].ev.data.type_url

\* C5 (under SpecDecode).  Once the payload is decompressed,
\* decompress_greek_message takes the JSON sub-path exactly when the
\* category is volume_zero or volume_one and the binary sub-path for every
\* other category, whatever the payload.
VariantSelection ==
    (call.fn = "greek" /\ call.value.valid) =>
        ret.path = IF call.category \in { <<"volume", "_", "zero">>, <<"volume", "_", "one">> }
                   THEN "json" ELSE "binary"

\* volume_one took the JSON sub-path and gave a record
VariantSelectionWitness ==
    /\ call.fn = "greek"
    /\ call.category = <<"volume", "_", "one">>
    /\ call.value.valid
    /\ ret.path = "json"
    /\ ret.kind = "record"

\* C6 (under Spec).  No call of on_group_message is left by an exception:
\* every call returns, a call that fails emits no record, and a call whose
\* stream read shared the context with no other is processed as Handle
\* processes its envelope alone, whatever failed before it.
FailureIsolation ==
    \A m \in Hubs :
        /\ pc[m] # "crashed"
        /\ out[m].done =>
              /\ out[m].result.returned
              /\ IsFailure(out[m].result) => out[m].result.record = NoRecord
              /\ ~out[m].raced => out[m].result = Handle(out[m].ev)

\* a call delivered after some call had failed gave a record
FailureIsolationWitness ==
    \E m \in Hubs :
        /\ out[m].done
        /\ out[m].prior
        /\ ~out[m].raced
        /\ out[m].result.kind = "record"

\* C7 (under SpecDecode).  On the JSON sub-path a document without the key
\* timestamp or without the key ticker makes the decode fail, and no record
\* is returned.
JsonRequiredKeys ==
    (call.fn = "greek" /\ call.category \in JsonCategories /\ call.value.valid
        /\ call.value.body.kind = "json" /\ call.value.body.doc.t = "obj"
        /\ ~({"timestamp", "ticker"} \subseteq DOMAIN call.value.body.doc.v))
      => (ret.kind = "raise" /\ ret.record = NoRecord)

\* the i-th element of a mini-contract entry, a missing or null one
\* resolved to `default`
Resolved(entry, i, default) ==
    IF i > Len(entry) THEN default
    ELSE IF entry[i] = JNull THEN default
    ELSE entry[i]

\* C8 (under SpecDecode).  On the JSON sub-path an entry of mini_contracts
\* that holds its first four elements decodes to a row whose elements 4, 5
\* and 6 are the entry's, or [] / 0 / [] where the entry has null there or
\* ends before, and the decode returns a record.
JsonMiniContractDefaults ==
    (call.fn = "greek" /\ call.category \in JsonCategories /\ call.value.valid
        /\ call.value.body.kind = "json" /\ call.value.body.doc.t = "obj"
        /\ "mini_contracts" \in DOMAIN call.value.body.doc.v
        /\ call.value.body.doc.v.mini_contracts.t = "list"
        /\ \A i \in 1..Len(call.value.body.doc.v.mini_contracts.v) :
              /\ call.value.body.doc.v.mini_contracts.v[i].t = "list"
              /\ Len(call.value.body.doc.v.mini_contracts.v[i].v) >= 4)
      => /\ ret.kind = "record"
         /\ \A i \in 1..Len(call.value.body.doc.v.mini_contracts.v) :
              LET entry == call.value.body.doc.v.mini_contracts.v[i].v
                  row   == ret.record.mini_contracts[i]
              IN  /\ \A k \in 1..4 : row[k] = entry[k]
                  /\ Truthy(Resolved(entry, 5, JList(<<>>)))
                        => row[5] = Resolved(entry, 5, JList(<<>>))
                  /\ Truthy(Resolved(entry, 6, JNum(0)))
                        => row[6] = Resolved(entry, 6, JNum(0))
                  /\ Truthy(Resolved(entry, 7, JList(<<>>)))
                        => row[7] = Resolved(entry, 7, JList(<<>>))
                  /\ 5 > Len(entry) \/ entry[5] = JNull => row[5] = JList(<<>>)
                  /\ 6 > Len(entry) \/ entry[6] = JNull => row[6] = JNum(0)
                  /\ 7 > Len(entry) \/ entry[7] = JNull => row[7] = JList(<<>>)

\* C9 (under Spec).  No two calls that are inside a stream read at the same
\* time read through the same decompression context.
ContextPerCaller ==
    \A m1, m2 \in Hubs :
        (m1 # m2 /\ pc[m1] = "reading" /\ pc[m2] = "reading")
            => ContextOf(m1) # ContextOf(m2)

\* C10 (under SpecDecode).  For a valid Gex payload decompress_gex_message
\* returns a record whose spot is the wire spot divided by 100, and 0 when
\* the wire carries no spot; an absent min_dte gives 0 and an absent
\* sec_min_dte gives 1.
GexSpotScaling ==
    (call.fn = "gex" /\ call.value.valid /\ call.value.body.kind = "gex") =>
        LET msg == call.value.body.msg
        IN  /\ ret.kind = "record"
            /\ ret.record.spot.den > 0
            /\ msg.spot # <<>> =>
                  ret.record.spot.num * 100 = msg.spot[1] * ret.record.spot.den
            /\ msg.spot = <<>> => ret.record.spot.num = 0
            /\ msg.min_dte = <<>> => ret.record.min_dte = 0
            /\ msg.sec_min_dte = <<>> => ret.record.sec_min_dte = 1

\* a payload without spot, min_dte and sec_min_dte gave a record
GexSpotScalingWitness ==
    /\ call.fn = "gex"
    /\ call.value.valid
    /\ call.value.body.kind = "gex"
    /\ call.value.body.msg.spot = <<>>
    /\ call.value.body.msg.min_dte = <<>>
    /\ call.value.body.msg.sec_min_dte = <<>>
    /\ ret.kind = "record"
    /\ ret.record.spot.num = 0
    /\ ret.record.sec_min_dte = 1

\* the fields the orderflow table divides by 100: spot and zero/one x major
\* long/short/call/put gamma
TableDecimalFields ==
    {"spot"} \cup { t \o "_major_" \o g \o "_gamma" :
                      t \in {"zero", "one"}, g \in {"long", "short", "call", "put"} }

\* the state fields of the orderflow table: ratios, net vanna, net charm,
\* aggregate and net dex, each for the zero and the one tier
TableStateFields ==
    { t \o "_" \o n :
        t \in {"zero", "one"},
        n \in { "convexity_ratio", "gex_ratio", "net_vanna", "net_charm",
                "agg_total_dex", "agg_call_dex", "agg_put_dex",
                "net_total_dex", "net_call_dex", "net_put_dex" } }

\* the six orderflow delta fields
TableDeltaFields ==
    { "dex_orderflow", "gex_orderflow", "convexity_orderflow",
      "one_dex_orderflow", "one_gex_orderflow", "one_convexity_orderflow" }

\* the integer the wire carries for field k, 0 when it carries none
WireValue(msg, k) == IF msg[k] = <<>> THEN 0 ELSE msg[k][1]

\* a valid binary Orderflow payload was decoded
OrderflowDecoded ==
    call.fn = "orderflow" /\ call.value.valid /\ call.value.body.kind = "orderflow"

\* the record holds spot and the eight gamma fields as the wire value
\* divided by 100, and the six delta fields as the wire's integer
TableScaledAndDelta ==
    /\ ret.kind = "record"
    /\ TableDecimalFields \cup TableDeltaFields \subseteq DOMAIN ret.record
    /\ \A k \in TableDecimalFields :
          /\ ret.record[k].den > 0
          /\ ret.record[k].num * 100 = WireValue(call.value.body.msg, k) * ret.record[k].den
    /\ \A k \in TableDeltaFields :
          ret.record[k] = WireValue(call.value.body.msg, k)

\* the keys of the record that are neither timestamp, ticker, a field
\* divided by 100 nor a delta field: its state fields
RecordStateFields ==
    DOMAIN ret.record \ ({"timestamp", "ticker"} \cup TableDecimalFields \cup TableDeltaFields)

\* C11 as stated (under SpecDecode).  For a valid binary Orderflow payload
\* only spot and the eight gamma fields are divided by 100, and each of the
\* eighteen state fields and each of the six delta fields is the wire's
\* signed integer unchanged.
OrderflowScalingTableEighteen ==
    OrderflowDecoded =>
        /\ TableScaledAndDelta
        /\ Cardinality(RecordStateFields) = 18
        /\ \A k \in RecordStateFields :
              ret.record[k] = WireValue(call.value.body.msg, k)

\* C11 as amended (under SpecDecode).  For a valid binary Orderflow payload
\* only spot and the eight gamma fields are divided by 100, and each of the
\* twenty state fields (zero/one x convexity ratio, gex ratio, net vanna,
\* net charm, aggregate total/call/put dex, net total/call/put dex) and
\* each of the six delta fields is the wire's signed integer unchanged,
\* negative values included, an absent field being 0.
OrderflowScalingTable ==
    OrderflowDecoded =>
        /\ TableScaledAndDelta
        /\ RecordStateFields = TableStateFields
        /\ Cardinality(TableStateFields) = 20
        /\ \A k \in TableStateFields :
              ret.record[k] = WireValue(call.value.body.msg, k)

\* spot = 52000 and zero_agg_total_dex = -7 gave spot 520 and
\* zero_agg_total_dex -7, the absent fields 0
OrderflowScalingTableWitness ==
    /\ OrderflowDecoded
    /\ call.value.body.msg.spot = <<52000>>
    /\ call.value.body.msg.zero_agg_total_dex = <<-7>>
    /\ call.value.body.msg.one_net_put_dex = <<>>
    /\ ret.kind = "record"
    /\ ret.record.spot = [num |-> 520, den |-> 1]
    /\ ret.record.zero_agg_total_dex = -7
    /\ ret.record.one_net_put_dex = 0
    /\ ret.record.zero_major_long_gamma.num = 0
    /\ ret.record.timestamp = 1700000000
    /\ ret.record.ticker = "SPX"

=============================================================================
